---- MODULE Spec2Model ----
(***************************************************************************)
(* Food / hunger subsystem of the Vicsek swarm simulation:                 *)
(*   events/FoodEvent.py                                                   *)
(*   model/VicsekIndividualsMultiSwitchOscillationFood.py                  *)
(* and, each on its own, the position update, the heading update and the   *)
(* construction of model/Vicsek.py and the visibility computation, the     *)
(* occlusion loop and the field-of-view test of services/ServiceVision.py. *)
(*                                                                         *)
(* Numbers.  Hunger is kept in tenths (the decay step 0.1 is one unit, one *)
(* feeding "+= 1" is ten units), so hunger arithmetic is exact decimal     *)
(* arithmetic.  The domain is DomainX wide and 1 high; positions are its   *)
(* integer points, dt = 1, and headings are the two unit vectors along the *)
(* x axis, so a position update stays on the integer points.               *)
(***************************************************************************)
EXTENDS Integers, Sequences, FiniteSets

\* ---------------------------------------------------------------- bounds
numberOfParticles == 2
DomainX == 4
MaxIntervals == 2
MaxEvents == 1
MaxFoodTenths == 1
radius == 1
\* floats: bits of the significand, binary places of the smallest float
MantissaBits == 3
FracBits == 5
\* the position update alone: largest domain size and largest displacement
MaxDomain == 8
MaxStep == 1
\* computeNewOrientations alone: largest noise component
MaxNoise == 2
\* ServiceVision alone: side of the domain, largest view distance
VisionSide == 3
MaxViewDistance == 2
\* construction: largest magnitude of the values tried
MaxSetupValue == 1
\* the occlusion loop alone: largest coordinate, largest agent radius
SweepSide == 3
MaxAgentRadius == 2

\* ------------------------------------------------------ program constants
\* hungerLevels[affected] += 1, in tenths
FoodGain == 10
\* reducedHungerLevels = hungerLevels - 0.1, in tenths
HungerDecrement == 1
\* FoodEvent.__init__: self.duration = -1
NoDuration == -1
\* speed=1 (constructor default, exampleFood.py)
speed == 1
\* get_visible_agents(..., agent_radius=1, ...)
agent_radius == 1

Agents == 1..numberOfParticles
domainSize == <<DomainX, 1>>
Grid == (0..(domainSize[1] - 1)) \X (0..(domainSize[2] - 1))
\* unit headings that keep positions on the integer points
Headings == {<<1, 0>>, <<-1, 0>>}
\* the amounts of a food source: fewer than, as many as, more than the agents
MaxAmount == numberOfParticles + 1
\* SwitchInformation(switchType=SPEED, values=(a, b)): the two speeds a
\* SPEED switch chooses between
speedSwitchValues == {1, 2}

VARIABLES
  t,                     \* loop variable of simulate (self.t)
  pc,                    \* position in the loop body
  ev,                    \* index of the next event of the for loop in handleFoodEvents
  positions,             \* positions[i] = <<x, y>>
  orientations,          \* orientations[i] = <<u, v>>
  neighbours,            \* the local array `neighbours` of simulate
  speeds,                \* the local array `speeds` of simulate
  hungerLevels,          \* the array the name hungerLevels is bound to
  previousHungerLevels,  \* the array the name previousHungerLevels is bound to
  alive,                 \* alive[i]
  foodEvents,            \* self.foodEvents, a sequence of FoodEvent objects
  overallAffected,       \* the list overallAffected of handleFoodEvents
  foodSourceAmount,      \* self.foodSourceAmount
  speedSwitch,           \* SwitchType.SPEED in self.switchSummary.switches
  maxFood,               \* self.maxFood, in tenths
  numIntervals,          \* self.numIntervals
  quietSteps,            \* updateFoodEvents draws rand >= foodAppearanceProbability
                         \* in the steps before this one
  everyoneDead,          \* the local flag everyoneDead of simulate
  reports,               \* number of "everyone is dead" lines printed
  stepStartHunger,       \* history: the hunger values at the start of the step
  unfedSteps,            \* history: consecutive completed steps without selection
  unfedBase,             \* history: hunger when that run of steps began
  phases,                \* history: the calls of the loop body made so far
                         \* in the current timestep, in the order made
  history,               \* self.hungerLevelHistory / self.alivenessHistory /
                         \* self.positionsHistory / self.orientationsHistory:
                         \* per row, how often it was assigned and which
                         \* state it holds
  svc,                   \* position in a call of one of the services below
  coord,                 \* one coordinate of a position as a float: x, the
                         \* displacement d added to it, the domain size L
  heading,               \* a call of Vicsek.computeNewOrientations: the
                         \* arguments, the noise drawn, the mean headings
                         \* and the result
  vision,                \* a call of ServiceVision.compute_visibility_mask:
                         \* the arguments, the lists of get_visible_agents
                         \* and the mask; or a call of isInFieldOfVision:
                         \* the arguments, the angles of vision, the result;
                         \* or the occlusion loop of get_visible_agents for
                         \* one agent: arguments, sorted_indices, position
                         \* in them, visible and occluded_mask
  setup                  \* a VicsekWithNeighbourSelection object: the
                         \* constructor's arguments, tmax, numIntervals and
                         \* the number of timesteps simulate has completed

\* the variables of a run of simulate
driverVars == <<t, pc, ev, positions, orientations, neighbours, speeds,
                hungerLevels, previousHungerLevels,
                alive, foodEvents, overallAffected, foodSourceAmount,
                speedSwitch, maxFood, numIntervals, quietSteps, everyoneDead,
                reports, stepStartHunger, unfedSteps, unfedBase, phases,
                history>>

\* the variables of the calls that are looked at on their own
serviceVars == <<svc, coord, heading, vision, setup>>

vars == <<driverVars, serviceVars>>

\* ------------------------------------------------------------- helpers
Min(a, b) == IF a < b THEN a ELSE b
Abs(a) == IF a < 0 THEN -a ELSE a

RECURSIVE SetSum(_, _)
SetSum(f, S) == IF S = {} THEN 0
                ELSE LET x == CHOOSE y \in S : TRUE
                     IN f[x] + SetSum(f, S \ {x})

\* squared minimum-image difference on one axis of length L
MinImageSq(d, L) == LET a == Abs(d) % L
                        m == Min(a, L - a)
                    IN m * m

\* ServiceVicsekHelper.getDifferences, row of the origin point: squared
\* periodic distance of every agent to the point `origin`
getDifferences(pos, origin) ==
  [i \in Agents |-> MinImageSq(pos[i][1] - origin[1], domainSize[1])
                  + MinImageSq(pos[i][2] - origin[2], domainSize[2])]

\* a FoodEvent object after __init__; selections and starved are history
\* fields (agents selected so far; some firing had fewer candidates than
\* the remaining amount), byDriver marks events made by updateFoodEvents
FoodEvent(startTimestep, amount, origin, byDriver) ==
  [startTimestep |-> startTimestep, maxAmount |-> amount, amount |-> amount,
   origin |-> origin, duration |-> NoDuration, timestep |-> -1,
   selections |-> 0, starved |-> FALSE, byDriver |-> byDriver]

\* ------------------------------------------------------------ FoodEvent
\* a trigger condition that only looks at the amount
TriggeredAlways(e, currentTimestep) == e.amount > 0

\* the trigger condition with the comparison turned round
TriggeredFromStart(e, currentTimestep) ==
  e.startTimestep <= currentTimestep /\ e.amount > 0

\* check, line 92: the trigger condition
Triggered(e, currentTimestep) ==
  e.startTimestep >= currentTimestep /\ e.amount > 0

\* executeEvent, line 125: candidates = (relevantDistances <= self.radius**2)
Candidates(rij2) == {i \in Agents : rij2[i] <= radius * radius}

\* a count that ignores the remaining amount
NumberOfAffectedAll(amount, lenCandidates) == lenCandidates

\* selectAffected, lines 145-148; len(candidates) is the length of the
\* boolean array, i.e. the number of agents
NumberOfAffected(amount, lenCandidates) ==
  IF amount < lenCandidates THEN amount ELSE lenCandidates

\* an argsort that orders by descending value
ArgsortDescending(rij2) ==
  {p \in [Agents -> Agents] :
     /\ \A a, b \in Agents : a # b => p[a] # p[b]
     /\ \A a, b \in Agents : a < b => rij2[p[a]] >= rij2[p[b]]}

\* np.argsort(rij2) with the default (unstable) sort: every ordering of the
\* indices by ascending value; the order of equal values is not determined
Argsort(rij2) ==
  {p \in [Agents -> Agents] :
     /\ \A a, b \in Agents : a # b => p[a] # p[b]
     /\ \A a, b \in Agents : a < b => rij2[p[a]] <= rij2[p[b]]}

\* a slice that stops one index early
PreselectionsShort(rij2, numberOfAffected) ==
  {{p[k] : k \in 1..(numberOfAffected - 1)} : p \in Argsort(rij2)}

\* selectAffected, lines 154-158: the possible masks candidates & preselection
Preselections(rij2, numberOfAffected) ==
  {{p[k] : k \in 1..numberOfAffected} : p \in Argsort(rij2)}

\* selectAffected: the possible results (new amount, returned mask)
selectAffected(amount, candidates, rij2) ==
  LET numberOfAffected == NumberOfAffected(amount, numberOfParticles)
  IN {[amount |-> amount - numberOfAffected, affected |-> candidates \cap pre] :
        pre \in Preselections(rij2, numberOfAffected)}

\* executeEvent: the possible results; the arrays speeds and hungerLevels
\* are updated in place and returned
executeEvent(e, pos, spd, hl) ==
  LET rij2 == getDifferences(pos, e.origin)
      candidates == Candidates(rij2)
  IN {[event |-> [e EXCEPT !.amount = r.amount,
                           !.selections = @ + Cardinality(r.affected),
                           !.starved = @ \/ Cardinality(candidates) < e.amount],
       speeds |-> [i \in Agents |-> IF i \in r.affected THEN 0 ELSE spd[i]],
       hungerLevels |-> [i \in Agents |-> IF i \in r.affected
                                          THEN hl[i] + FoodGain ELSE hl[i]],
       affected |-> r.affected] :
        r \in selectAffected(e.amount, candidates, rij2)}

\* check: the possible results of one call
check(e, currentTimestep, pos, spd, hl) ==
  IF Triggered(e, currentTimestep)
  THEN executeEvent([e EXCEPT !.timestep = currentTimestep], pos, spd, hl)
  ELSE {[event |-> IF e.duration = NoDuration
                   THEN [e EXCEPT !.duration = currentTimestep - e.startTimestep]
                   ELSE e,
         speeds |-> spd, hungerLevels |-> hl, affected |-> {}]}

\* --------------------------------------------------------------- driver
\* handleFoodEvents, lines 136-141
CombineSpeeds(masks, hl, maxFoodValue) ==
  LET flat == UNION {masks[k] : k \in 1..Len(masks)}
      halted == [i \in Agents |-> IF i \in flat THEN 0 ELSE speed]
  IN [i \in Agents |-> IF hl[i] >= maxFoodValue THEN speed ELSE halted[i]]

\* getDecisions for SwitchType.SPEED: every agent keeps its value or takes
\* one of the two configured values
getDecisionsSpeed(spd) ==
  {d \in [Agents -> {0} \cup {speed} \cup speedSwitchValues] :
     \A i \in Agents : d[i] = spd[i] \/ d[i] \in speedSwitchValues}

\* computeNewOrientations of the food model's parent class: the mean heading
\* of the neighbours plus noise, normalised; with noise every unit heading is
\* a possible result for every agent
computeNewOrientations(nb, ori) == [Agents -> Headings]

\* simulate, lines 222-223: position update and periodic wrap
Move(pos, ori, spd) ==
  [i \in Agents |->
     <<(pos[i][1] + ori[i][1] * spd[i]) % domainSize[1],
       (pos[i][2] + ori[i][2] * spd[i]) % domainSize[2]>>]

\* a decay of two decrements
DecayDouble(hl, prev) ==
  [i \in Agents |-> IF hl[i] = prev[i] THEN hl[i] - 2 * HungerDecrement
                    ELSE hl[i]]

\* simulate, lines 226-227
Decay(hl, prev) ==
  [i \in Agents |-> IF hl[i] = prev[i] THEN hl[i] - HungerDecrement ELSE hl[i]]

\* simulate, line 229
Aliveness(hl) == [i \in Agents |-> hl[i] > 0]

\* ServiceVicsekHelper.getNeighboursWithLimitedVision with the default
\* degreesOfVision = 2*pi: agent j is in row i iff its periodic distance to
\* agent i is within the radius (every agent is in its own row)
getNeighboursWithLimitedVision(pos) ==
  [i \in Agents |-> [j \in Agents |->
     getDifferences(pos, pos[i])[j] <= radius * radius]]

\* a mask that is applied to the rows
MaskDeadRows(nb, al) ==
  [i \in Agents |-> [j \in Agents |-> nb[i][j] /\ al[i]]]

\* simulate, line 199: neighbours * np.array([alive]*N) multiplies column j
\* by alive[j]
MaskDead(nb, al) ==
  [i \in Agents |-> [j \in Agents |-> nb[i][j] /\ al[j]]]

\* a report that does not look at the flag
ReportDueEveryStep(al, flag) == \A i \in Agents : ~al[i]

\* simulate, line 240: the condition of the "everyone is dead" report
ReportDue(al, flag) == (\A i \in Agents : ~al[i]) /\ flag = FALSE

\* the agents some event of this step selected
Fed == UNION {overallAffected[k] : k \in 1..Len(overallAffected)}

\* the foodEvents list handed to the constructor: empty, or one event of
\* the given amount whose startTimestep is the second step (the agents'
\* positions are arbitrary, so the event's origin is fixed)
InitialFoodEvents(amount) ==
  {<<>>, <<FoodEvent(1, amount, <<0, 0>>, FALSE)>>}

\* the positions handed to simulate in initialState: the domain is a ring
\* and food appears at any of its points, so the first agent starts at the
\* origin and the others anywhere
InitialPositions == {p \in [Agents -> Grid] : p[1] = <<0, 0>>}

\* what a row of the history buffers holds: the zeros of np.zeros (lines
\* 175-176), the state simulate starts its loop with (lines 178-179), or the
\* state at the end of timestep s, written as s >= 0 (lines 231-235)
ZeroRow == -2
InitialState == -1

\* simulate, lines 175-179 (and prepareSimulation, lines 177-181 of
\* Vicsek.py): buffers of n rows of zeros, row 0 assigned the initial state
PreparedHistory(n) ==
  [r \in 0..(n - 1) |-> IF r = 0 THEN [writes |-> 1, holds |-> InitialState]
                                  ELSE [writes |-> 0, holds |-> ZeroRow]]

\* simulate, lines 231-235: row t of every buffer is assigned the state at
\* the end of timestep t
RecordHistory(h, step) ==
  [h EXCEPT ![step] = [writes |-> @.writes + 1, holds |-> step]]

\* simulate, lines 190-201: the calls before the food events are handled
PhasesOfBeginStep ==
  <<"updateFoodEvents", "getNeighboursWithLimitedVision", "handleEvents">>

\* simulate, lines 206-238: the calls after the food events were handled;
\* every run has a switchSummary, so the getDecisions block is entered
PhasesOfIntegrate ==
  <<"getDecisions", "computeNewOrientations", "positions", "history">>

\* what a run never changes
config == <<foodSourceAmount, speedSwitch, maxFood, numIntervals, quietSteps>>

\* the state simulate starts its loop in
InitRun ==
  /\ t = 0
  /\ pc = "update"
  /\ ev = 1
  /\ positions \in InitialPositions
  /\ orientations = [i \in Agents |-> <<1, 0>>]
  /\ neighbours = [i \in Agents |-> [j \in Agents |-> FALSE]]
  /\ everyoneDead = FALSE
  /\ reports = 0
  /\ speeds = [i \in Agents |-> speed]
  /\ hungerLevels = [i \in Agents |-> maxFood]
  /\ previousHungerLevels = hungerLevels
  /\ alive = [i \in Agents |-> TRUE]
  /\ overallAffected = <<>>
  /\ foodSourceAmount \in {1, numberOfParticles, MaxAmount}
  /\ stepStartHunger = hungerLevels
  /\ unfedSteps = [i \in Agents |-> 0]
  /\ unfedBase = hungerLevels
  /\ phases = <<>>
  /\ history = PreparedHistory(numIntervals)
  /\ svc = "none"
  /\ coord = <<>>
  /\ heading = <<>>
  /\ vision = <<>>
  /\ setup = <<>>

\* simulate, lines 186-190: previousHungerLevels = hungerLevels binds a second
\* name to the same array; then updateFoodEvents
BeginStep ==
  /\ pc = "update"
  /\ previousHungerLevels' = hungerLevels
  /\ stepStartHunger' = hungerLevels
  /\ overallAffected' = <<>>
  /\ ev' = 1
  /\ neighbours' = MaskDead(getNeighboursWithLimitedVision(positions), alive)
  /\ phases' = PhasesOfBeginStep
  /\ pc' = "check"
  /\ UNCHANGED <<t, positions, orientations, speeds, hungerLevels, alive,
                 config, everyoneDead, reports, unfedSteps, unfedBase,
                 history, serviceVars>>

\* updateFoodEvents: rand >= foodAppearanceProbability
NoFood ==
  /\ BeginStep
  /\ UNCHANGED foodEvents

\* updateFoodEvents: rand < foodAppearanceProbability, a new event at a
\* random point
SpawnFood ==
  /\ BeginStep
  /\ t >= quietSteps
  /\ Len(foodEvents) < MaxEvents
  /\ \E o \in Grid :
       foodEvents' = Append(foodEvents, FoodEvent(t, foodSourceAmount, o, TRUE))

\* handleFoodEvents, lines 132-134: one pass of the for loop.  executeEvent
\* writes into the array both names are bound to, so previousHungerLevels
\* shows the same values as hungerLevels
Check ==
  /\ pc = "check"
  /\ ev <= Len(foodEvents)
  /\ \E r \in check(foodEvents[ev], t, positions, speeds, hungerLevels) :
       /\ foodEvents' = [foodEvents EXCEPT ![ev] = r.event]
       /\ speeds' = r.speeds
       /\ hungerLevels' = r.hungerLevels
       /\ previousHungerLevels' = r.hungerLevels
       /\ overallAffected' = Append(overallAffected, r.affected)
  /\ ev' = ev + 1
  /\ UNCHANGED <<t, pc, positions, orientations, neighbours, alive, config,
                 everyoneDead, reports, stepStartHunger, unfedSteps, unfedBase,
                 phases, history, serviceVars>>

\* handleFoodEvents, lines 136-142: the speeds of the step
Combine ==
  /\ pc = "check"
  /\ ev > Len(foodEvents)
  /\ speeds' = CombineSpeeds(overallAffected, hungerLevels, maxFood)
  /\ phases' = Append(phases, "handleFoodEvents")
  /\ pc' = "integrate"
  /\ UNCHANGED <<t, ev, positions, orientations, neighbours, hungerLevels,
                 previousHungerLevels, alive, foodEvents, overallAffected,
                 config, everyoneDead, reports,
                 stepStartHunger, unfedSteps, unfedBase, history, serviceVars>>

\* simulate, lines 206-238: switching of the speed, new headings, position
\* update, hunger decay, aliveness, history rows.  np.where builds a new
\* array for hungerLevels; previousHungerLevels keeps the old one
Integrate ==
  /\ pc = "integrate"
  /\ \E spd \in (IF speedSwitch THEN getDecisionsSpeed(speeds) ELSE {speeds}),
        newOrientations \in computeNewOrientations(neighbours, orientations) :
       /\ speeds' = spd
       /\ orientations' = newOrientations
       /\ positions' = Move(positions, newOrientations, spd)
  /\ hungerLevels' = Decay(hungerLevels, previousHungerLevels)
  /\ alive' = Aliveness(hungerLevels')
  /\ everyoneDead' = (everyoneDead \/ ReportDue(alive', everyoneDead))
  /\ reports' = IF ReportDue(alive', everyoneDead) THEN reports + 1 ELSE reports
  /\ unfedSteps' = [i \in Agents |-> IF i \in Fed THEN 0 ELSE unfedSteps[i] + 1]
  /\ unfedBase' = [i \in Agents |-> IF i \in Fed THEN hungerLevels'[i]
                                    ELSE unfedBase[i]]
  /\ history' = RecordHistory(history, t)
  /\ phases' = phases \o PhasesOfIntegrate
  /\ t' = t + 1
  /\ pc' = IF t + 1 < numIntervals THEN "update" ELSE "done"
  /\ UNCHANGED <<ev, neighbours, previousHungerLevels, foodEvents,
                 overallAffected, config, stepStartHunger, serviceVars>>

\* a run without a SPEED switch (exampleFood.py: SwitchSummary([infoNsm])),
\* short enough and with maxFood small enough to starve within the run
Init ==
  /\ maxFood = MaxFoodTenths
  /\ numIntervals = MaxIntervals
  /\ quietSteps = 0
  /\ InitRun
  /\ foodEvents \in InitialFoodEvents(foodSourceAmount)
  /\ speedSwitch = FALSE

\* a run with a SPEED switch (SwitchSummary([infoSpeed])), foodEvents=[],
\* maxFood above one feeding, and no food in the first steps, so that an
\* agent is still below maxFood after it was fed
InitSwitch ==
  /\ maxFood = FoodGain + MaxFoodTenths + 1
  /\ quietSteps = FoodGain + 1
  /\ numIntervals = quietSteps + MaxIntervals
  /\ InitRun
  /\ foodEvents = <<>>
  /\ speedSwitch = TRUE

Next == NoFood \/ SpawnFood \/ Check \/ Combine \/ Integrate

Spec == Init /\ [][Next]_vars

SpecSwitch == InitSwitch /\ [][Next]_vars

\* a run that starts with all agents at the origin and without food events,
\* and spawns sources of one unit
InitStarve ==
  /\ maxFood = MaxFoodTenths
  /\ numIntervals = MaxIntervals
  /\ quietSteps = 0
  /\ InitRun
  /\ positions = [i \in Agents |-> <<0, 0>>]
  /\ foodSourceAmount = 1
  /\ foodEvents = <<>>
  /\ speedSwitch = FALSE

\* the for loop of simulate runs on: a loop body that has begun is completed
\* and the next iteration is started
SpecStarve == InitStarve /\ [][Next]_vars /\ WF_vars(Next)

\* a run one timestep longer, without food events at the start, whose
\* sources hold more units than there are agents, so that a source is not
\* used up by one execution
InitSpawn ==
  /\ maxFood = MaxFoodTenths
  /\ numIntervals = MaxIntervals + 1
  /\ quietSteps = 0
  /\ InitRun
  /\ positions = [i \in Agents |-> <<0, 0>>]
  /\ foodSourceAmount = MaxAmount
  /\ foodEvents = <<>>
  /\ speedSwitch = FALSE

SpecSpawn == InitSpawn /\ [][Next]_vars

\* ---------------------------------------------- the position update alone
\* no run of simulate: the driver's variables at rest
DriverIdle ==
  /\ t = 0 /\ pc = "none" /\ ev = 1
  /\ positions = [i \in Agents |-> <<0, 0>>]
  /\ orientations = [i \in Agents |-> <<1, 0>>]
  /\ neighbours = [i \in Agents |-> [j \in Agents |-> FALSE]]
  /\ speeds = [i \in Agents |-> speed]
  /\ hungerLevels = [i \in Agents |-> MaxFoodTenths]
  /\ previousHungerLevels = hungerLevels
  /\ alive = [i \in Agents |-> TRUE]
  /\ foodEvents = <<>> /\ overallAffected = <<>>
  /\ foodSourceAmount = 1 /\ speedSwitch = FALSE
  /\ maxFood = MaxFoodTenths /\ numIntervals = MaxIntervals /\ quietSteps = 0
  /\ everyoneDead = FALSE /\ reports = 0
  /\ stepStartHunger = hungerLevels
  /\ unfedSteps = [i \in Agents |-> 0]
  /\ unfedBase = hungerLevels
  /\ phases = <<>>
  /\ history = <<>>

\* Floats.  A float is an integer number of units of 2^-FracBits (the
\* smallest positive float) with at most MantissaBits significant bits;
\* results are rounded to the nearest float, ties to the even significand,
\* as numpy's float64 does with 53 bits.
RECURSIVE Pow2(_)
Pow2(k) == IF k = 0 THEN 1 ELSE 2 * Pow2(k - 1)

RECURSIVE BitLen(_)
BitLen(n) == IF n = 0 THEN 0 ELSE 1 + BitLen(n \div 2)

One == Pow2(FracBits)

\* the float nearest to num/den, for num >= 0 and den > 0
RoundPos(num, den) ==
  LET bl == BitLen(num \div den)
      quantum == IF bl > MantissaBits THEN Pow2(bl - MantissaBits) ELSE 1
      D == den * quantum
      k == num \div D
      rem == num % D
      up == 2 * rem > D \/ (2 * rem = D /\ k % 2 = 1)
  IN (IF up THEN k + 1 ELSE k) * quantum

RoundFloat(num, den) ==
  IF num >= 0 THEN RoundPos(num, den) ELSE -RoundPos(-num, den)

IsFloat(n) == RoundFloat(n, 1) = n

fadd(a, b) == RoundFloat(a + b, 1)
fmul(a, b) == RoundFloat(a * b, One)
fdiv(a, b) == IF b > 0 THEN RoundFloat(a * One, b) ELSE -RoundFloat(a * One, -b)
\* np.floor
ffloor(a) == (a \div One) * One

\* simulate, line 228 (Vicsek.py) and line 222 (food model), one coordinate:
\* positions += dt*(orientations.T * speeds).T with d the float
\* dt * (orientation * speed)
AddDisplacement(x, d) == fadd(x, d)

\* simulate, line 229 (Vicsek.py) and line 223 (food model), one coordinate:
\* positions += -domainSize*np.floor(positions/domainSize)
WrapPosition(x, L) == fadd(x, fmul(-L, ffloor(fdiv(x, L))))

\* the floats between lo and hi
Floats(lo, hi) == {n \in lo..hi : IsFloat(n)}

\* a position inside the domain, a displacement of at most MaxStep in
\* either direction, and a domain size that is a whole number
InitWrap ==
  /\ DriverIdle
  /\ svc = "move"
  /\ \E L \in {k * One : k \in 1..MaxDomain} :
       \E x \in Floats(0, L - 1), d \in Floats(-MaxStep * One, MaxStep * One) :
         coord = [x |-> x, d |-> d, L |-> L]
  /\ heading = <<>>
  /\ vision = <<>>
  /\ setup = <<>>

PositionUpdate ==
  /\ svc = "move"
  /\ coord' = [coord EXCEPT !.x = AddDisplacement(coord.x, coord.d)]
  /\ svc' = "wrap"
  /\ UNCHANGED <<driverVars, heading, vision, setup>>

Wrap ==
  /\ svc = "wrap"
  /\ coord' = [coord EXCEPT !.x = WrapPosition(coord.x, coord.L)]
  /\ svc' = "moved"
  /\ UNCHANGED <<driverVars, heading, vision, setup>>

NextWrap == PositionUpdate \/ Wrap

SpecWrap == InitWrap /\ [][NextWrap]_vars

\* ------------------------------------- Vicsek.computeNewOrientations alone
\* Vectors are pairs of integers along the x axis, so that sums, noise and
\* unit vectors are exact.
NormSq(v) == v[1] * v[1] + v[2] * v[2]
VecAdd(v, w) == <<v[1] + w[1], v[2] + w[2]>>
Sign(a) == IF a > 0 THEN 1 ELSE IF a < 0 THEN -1 ELSE 0

RECURSIVE VecSum(_, _)
VecSum(f, S) == IF S = {} THEN <<0, 0>>
                ELSE LET x == CHOOSE y \in S : TRUE
                     IN VecAdd(f[x], VecSum(f, S \ {x}))

\* ServiceOrientations.normalizeOrientations, one row: the unit vector in the
\* direction of v; for the zero vector the guard's fallback, some unit vector
normalizeOrientations(v) ==
  IF v = <<0, 0>> THEN Headings ELSE {<<Sign(v[1]), Sign(v[2])>>}

\* generateNoise: one draw per agent
generateNoise == [Agents -> {<<n, 0>> : n \in (-MaxNoise)..MaxNoise}]

\* calculateMeanOrientations: the possible results
calculateMeanOrientations(ori, nb) ==
  {m \in [Agents -> Headings] :
     \A i \in Agents :
       m[i] \in normalizeOrientations(VecSum(ori, {j \in Agents : nb[i][j]}))}

\* a computeNewOrientations that returns mean + noise as it is
computeNewOrientationsRaw(mean, noise) ==
  {[i \in Agents |-> VecAdd(mean[i], noise[i])]}

\* computeNewOrientations, line 134: the possible results for the mean
\* headings of line 133 and the noise drawn
computeNewOrientationsVicsek(mean, noise) ==
  {o \in [Agents -> Headings] :
     \A i \in Agents : o[i] \in normalizeOrientations(VecAdd(mean[i], noise[i]))}

\* simulate of Vicsek.py, line 223: all neighbours (including self)
NeighbourMatrices ==
  {nb \in [Agents -> [Agents -> BOOLEAN]] : \A i \in Agents : nb[i][i]}

InitHeading ==
  /\ DriverIdle
  /\ svc = "orient"
  /\ coord = <<>>
  /\ vision = <<>>
  /\ setup = <<>>
  /\ \E ori \in [Agents -> Headings], nb \in NeighbourMatrices :
       heading = [orientations |-> ori, neighbours |-> nb,
                  mean |-> ori, noise |-> [i \in Agents |-> <<0, 0>>],
                  result |-> ori]

ComputeNewOrientations ==
  /\ svc = "orient"
  /\ \E mean \in calculateMeanOrientations(heading.orientations,
                                             heading.neighbours),
        noise \in generateNoise :
       \E o \in computeNewOrientationsVicsek(mean, noise) :
         heading' = [heading EXCEPT !.mean = mean, !.noise = noise,
                                    !.result = o]
  /\ svc' = "oriented"
  /\ UNCHANGED <<driverVars, coord, vision, setup>>

NextHeading == ComputeNewOrientations

SpecHeading == InitHeading /\ [][NextHeading]_vars

\* --------------------------------------------------------- ServiceVision
\* Positions are the integer points of a square domain of side
\* VisionSide, headings are quarter turns (0: along x, 1: along y, ...),
\* fov is given in half turns (2 is 2*pi), so that distances, dot and cross
\* products are exact.
VisionAgents == {1, 2, 3}
VisionGrid == (0..(VisionSide - 1)) \X (0..(VisionSide - 1))
Forward(q) == CASE q = 0 -> <<1, 0>> [] q = 1 -> <<0, 1>>
                [] q = 2 -> <<-1, 0>> [] q = 3 -> <<0, -1>>
Dot(v, w) == v[1] * w[1] + v[2] * w[2]
Cross(v, w) == v[1] * w[2] - v[2] * w[1]
\* get_visible_agents, line 92: rel_pos = positions - pos_i
RelPos(pos, i, j) == <<pos[j][1] - pos[i][1], pos[j][2] - pos[i][2]>>

\* a field of view test against fov / 4
InFovQuarter(rel, forward, fov) ==
  IF fov >= 2 THEN Dot(rel, forward) >= 0
  ELSE /\ Dot(rel, forward) >= 0
       /\ 2 * Dot(rel, forward) * Dot(rel, forward) >= NormSq(rel)

\* get_visible_agents, lines 97-102: arccos(clip(cos_angles)) <= fov / 2;
\* the arccos is at most pi, and at most pi/2 iff the cosine is >= 0
InFov(rel, forward, fov) ==
  IF fov >= 2 THEN TRUE ELSE Dot(rel, forward) >= 0

\* get_visible_agents, lines 102-105: the candidates of agent i
VisionCandidates(pos, angles, fov, view_distance, i) ==
  {j \in VisionAgents :
     LET rel == RelPos(pos, i, j)
     IN /\ InFov(rel, Forward(angles[i]), fov)
        /\ NormSq(rel) > 0
        /\ NormSq(rel) <= view_distance * view_distance}

\* get_visible_agents, lines 106-107: candidates[np.argsort(...)], every
\* ordering by ascending distance
SortedIndices(pos, i, cand) ==
  {seq \in [1..Cardinality(cand) -> cand] :
     /\ \A a, b \in 1..Cardinality(cand) : a # b => seq[a] # seq[b]
     /\ \A a, b \in 1..Cardinality(cand) :
          a < b => NormSq(RelPos(pos, i, seq[a])) <= NormSq(RelPos(pos, i, seq[b]))}

\* an occlusion test that marks the agents in front of agent j
OccludedInFront(pos, i, j) ==
  LET relj == RelPos(pos, i, j)
  IN {k \in VisionAgents :
        LET relk == RelPos(pos, i, k)
        IN /\ Dot(relk, relj) < NormSq(relj)
           /\ Cross(relk, relj) * Cross(relk, relj)
                < agent_radius * agent_radius * NormSq(relj)}

\* get_visible_agents, lines 117-121: the agents behind agent j, seen from
\* agent i: dot_prods > distances[j] and proj_lens < agent_radius, both
\* multiplied by |rel_vec|
Occluded(pos, i, j) ==
  LET relj == RelPos(pos, i, j)
  IN {k \in VisionAgents :
        LET relk == RelPos(pos, i, k)
        IN /\ Dot(relk, relj) > NormSq(relj)
           /\ Cross(relk, relj) * Cross(relk, relj)
                < agent_radius * agent_radius * NormSq(relj)}

\* get_visible_agents, lines 110-122: the loop over sorted_indices from its
\* k-th element on
RECURSIVE Sweep(_, _, _, _, _, _)
Sweep(pos, i, seq, k, visible, occluded_mask) ==
  IF k > Cardinality(DOMAIN seq) THEN visible
  ELSE IF seq[k] \in occluded_mask
       THEN Sweep(pos, i, seq, k + 1, visible, occluded_mask)
       ELSE Sweep(pos, i, seq, k + 1, visible \cup {seq[k]},
                  occluded_mask \cup Occluded(pos, i, seq[k]))

\* get_visible_agents: the possible lists (as sets) for agent i
VisibleTo(pos, angles, fov, view_distance, occlusion_active, i) ==
  LET cand == VisionCandidates(pos, angles, fov, view_distance, i)
  IN IF occlusion_active
     THEN {Sweep(pos, i, seq, 1, {}, {}) : seq \in SortedIndices(pos, i, cand)}
     ELSE {cand}

\* get_visible_agents: the possible results
get_visible_agents(pos, angles, fov, view_distance, occlusion_active) ==
  LET lists == [i \in VisionAgents |->
                  VisibleTo(pos, angles, fov, view_distance, occlusion_active, i)]
  IN {v \in [VisionAgents -> UNION {lists[i] : i \in VisionAgents}] :
        \A i \in VisionAgents : v[i] \in lists[i]}

\* a mask of the lists alone, without np.fill_diagonal
MaskOfLists(indices) ==
  [i \in VisionAgents |-> [j \in VisionAgents |-> j \in indices[i]]]

\* compute_visibility_mask, lines 65-69
MaskOf(indices) ==
  [i \in VisionAgents |-> [j \in VisionAgents |-> j \in indices[i] \/ i = j]]

InitVision ==
  /\ DriverIdle
  /\ svc = "look"
  /\ coord = <<>>
  /\ heading = <<>>
  /\ setup = <<>>
  /\ \E pos \in [VisionAgents -> VisionGrid],
        angles \in [VisionAgents -> {0, 2}],
        fov \in {1, 2}, view_distance \in {1, MaxViewDistance},
        occlusion_active \in BOOLEAN :
       vision = [positions |-> pos, angles |-> angles, fov |-> fov,
                 view_distance |-> view_distance,
                 occlusion_active |-> occlusion_active,
                 visibility |-> [i \in VisionAgents |-> {}],
                 mask |-> MaskOf([i \in VisionAgents |-> {}])]

ComputeVisibilityMask ==
  /\ svc = "look"
  /\ \E indices \in get_visible_agents(vision.positions, vision.angles,
                                         vision.fov, vision.view_distance,
                                         vision.occlusion_active) :
       vision' = [vision EXCEPT !.visibility = indices,
                                !.mask = MaskOf(indices)]
  /\ svc' = "seen"
  /\ UNCHANGED <<driverVars, coord, heading, setup>>

NextVision == ComputeVisibilityMask

SpecVision == InitVision /\ [][NextVision]_vars

\* ------------------- get_visible_agents: the occlusion loop of one agent
\* Agent 1 is the observer i, at the origin; the other agents are at integer
\* points; fov and view_distance have their defaults (2*pi, np.inf) and
\* agent_radius is a whole number of grid units.
SweepAgents == {1, 2, 3, 4}
SweepGrid == (0..SweepSide) \X (0..SweepSide)

\* an occlusion test that compares the distances from the observer
OccludedByDistance(S, pos, i, j, r) ==
  LET relj == RelPos(pos, i, j)
  IN {k \in S :
        LET relk == RelPos(pos, i, k)
        IN /\ NormSq(relk) > NormSq(relj)
           /\ Dot(relk, relj) > 0
           /\ Cross(relk, relj) * Cross(relk, relj) < r * r * NormSq(relj)}

\* get_visible_agents, lines 117-121, for agent_radius r among the agents S
OccludedAmong(S, pos, i, j, r) ==
  LET relj == RelPos(pos, i, j)
  IN {k \in S :
        LET relk == RelPos(pos, i, k)
        IN /\ Dot(relk, relj) > NormSq(relj)
           /\ Cross(relk, relj) * Cross(relk, relj) < r * r * NormSq(relj)}

\* get_visible_agents, lines 102-105, with the default fov and view_distance
SweepCandidates(pos, i) == {j \in SweepAgents : NormSq(RelPos(pos, i, j)) > 0}

InitSweep ==
  /\ DriverIdle
  /\ svc = "candidates"
  /\ coord = <<>> /\ heading = <<>> /\ setup = <<>>
  /\ \E pos \in [SweepAgents -> SweepGrid], r \in 1..MaxAgentRadius :
       /\ pos[1] = <<0, 0>>
       /\ vision = [positions |-> pos, agent_radius |-> r,
                    sorted_indices |-> <<>>, next |-> 1,
                    visible |-> <<>>, occluded_mask |-> {}]

\* get_visible_agents, lines 105-111: the candidates in an order np.argsort
\* may give, an empty list and an empty mask
SortCandidates ==
  /\ svc = "candidates"
  /\ \E seq \in SortedIndices(vision.positions, 1,
                               SweepCandidates(vision.positions, 1)) :
       vision' = [vision EXCEPT !.sorted_indices = seq, !.next = 1,
                                !.visible = <<>>, !.occluded_mask = {}]
  /\ svc' = "sweep"
  /\ UNCHANGED <<driverVars, coord, heading, setup>>

\* get_visible_agents, lines 113-122: one pass of the loop over
\* sorted_indices
SweepPass ==
  /\ svc = "sweep"
  /\ vision.next <= Len(vision.sorted_indices)
  /\ LET j == vision.sorted_indices[vision.next]
     IN IF j \notin vision.occluded_mask
        THEN vision' = [vision EXCEPT
                          !.visible = Append(@, j),
                          !.occluded_mask =
                             @ \cup OccludedAmong(SweepAgents, vision.positions,
                                                  1, j, vision.agent_radius),
                          !.next = @ + 1]
        ELSE vision' = [vision EXCEPT !.next = @ + 1]
  /\ UNCHANGED <<driverVars, svc, coord, heading, setup>>

\* get_visible_agents, line 126: the list is complete
SweepEnd ==
  /\ svc = "sweep"
  /\ vision.next > Len(vision.sorted_indices)
  /\ svc' = "swept"
  /\ UNCHANGED <<driverVars, coord, heading, vision, setup>>

NextSweep == SortCandidates \/ SweepPass \/ SweepEnd

SpecSweep == InitSweep /\ [][NextSweep]_vars

\* ------------------------------------ ServiceVision.isInFieldOfVision
\* Angles are whole numbers of eighths of a turn (pi/4), so 2*pi is
\* FullTurn; the candidate's offset from the observer has coordinates in
\* {-1, 0, 1}, for which np.arctan and the bearing are such angles.
FullTurn == 8
Offsets == {-1, 0, 1} \X {-1, 0, 1}

\* normaliseAngles, lines 54-55
normaliseAngles(a) ==
  LET b == IF a < 0 THEN FullTurn - Abs(a) ELSE a
  IN IF b > FullTurn THEN b % FullTurn ELSE b

\* determineMinMaxAngleOfVision, lines 17-23, for the angle
\* computeAnglesForOrientations returned
determineMinMaxAngleOfVision(angle, degreesOfVision) ==
  LET angularDistance == degreesOfVision \div 2
      currentAngle == normaliseAngles(angle)
  IN [minAngle |-> normaliseAngles(currentAngle - angularDistance),
      maxAngle |-> normaliseAngles(currentAngle + angularDistance)]

\* np.arctan of -1, 0, 1
Arctan(y) == y

\* isInFieldOfVision, lines 40-42, one entry: np.arctan is called with
\* posDiffs[:, :, 0] as its second argument, which is the array the result
\* is written to, so the angle is arctan(dy)
isInFieldOfVision(posDiff, minAngle, maxAngle) ==
  LET relativeAngle == Arctan(posDiff[2])
      angle == relativeAngle % FullTurn
  IN \/ (minAngle < maxAngle /\ (angle >= minAngle /\ angle <= maxAngle))
     \/ (minAngle >= maxAngle /\ (angle >= minAngle \/ angle <= maxAngle))

\* the bearing of an offset: its direction as an angle in [0, 2*pi)
Bearing(posDiff) ==
  CASE posDiff = <<1, 0>> -> 0   [] posDiff = <<1, 1>> -> 1
    [] posDiff = <<0, 1>> -> 2   [] posDiff = <<-1, 1>> -> 3
    [] posDiff = <<-1, 0>> -> 4  [] posDiff = <<-1, -1>> -> 5
    [] posDiff = <<0, -1>> -> 6  [] posDiff = <<1, -1>> -> 7

\* the angle between two directions, in [0, pi]
AngularDistance(a, b) == Min((a - b) % FullTurn, (b - a) % FullTurn)

\* a heading angle as computeAnglesForOrientations may return it (in
\* [-pi, pi] or in [0, 2*pi]), a field of view of 0, pi/2, ..., 2*pi and
\* a candidate that is not at the observer's position
InitFov ==
  /\ DriverIdle
  /\ svc = "fov"
  /\ coord = <<>> /\ heading = <<>> /\ setup = <<>>
  /\ \E angle \in (-(FullTurn \div 2))..FullTurn,
        degreesOfVision \in {2 * k : k \in 0..(FullTurn \div 2)},
        posDiff \in Offsets \ {<<0, 0>>} :
       vision = [angle |-> angle, degreesOfVision |-> degreesOfVision,
                 posDiff |-> posDiff, minAngle |-> 0, maxAngle |-> 0,
                 inFieldOfVision |-> FALSE]

DetermineMinMaxAngleOfVision ==
  /\ svc = "fov"
  /\ LET r == determineMinMaxAngleOfVision(vision.angle, vision.degreesOfVision)
     IN vision' = [vision EXCEPT !.minAngle = r.minAngle,
                                 !.maxAngle = r.maxAngle]
  /\ svc' = "fovBounds"
  /\ UNCHANGED <<driverVars, coord, heading, setup>>

IsInFieldOfVision ==
  /\ svc = "fovBounds"
  /\ vision' = [vision EXCEPT !.inFieldOfVision =
                  isInFieldOfVision(vision.posDiff, vision.minAngle,
                                    vision.maxAngle)]
  /\ svc' = "fovTested"
  /\ UNCHANGED <<driverVars, coord, heading, setup>>

NextFov == DetermineMinMaxAngleOfVision \/ IsInFieldOfVision

SpecFov == InitFov /\ [][NextFov]_vars

\* ------------------------------------- construction and start of a run
\* the values tried for the domain size, the radius, the speed and the
\* noise: negative, zero, positive
SetupValues == (-MaxSetupValue)..MaxSetupValue
\* degreesOfVision in half turns: below 0, 0, 2*pi, above 2*pi
SetupFovs == {-1, 0, 2, 3}

InitSetup ==
  /\ DriverIdle
  /\ svc = "new"
  /\ coord = <<>> /\ heading = <<>> /\ vision = <<>>
  /\ \E ds \in SetupValues, r \in SetupValues, sp \in SetupValues,
        nz \in SetupValues, fov \in SetupFovs :
       setup = [domainSize |-> ds, radius |-> r, speed |-> sp, noise |-> nz,
                degreesOfVision |-> fov, tmax |-> 0, numIntervals |-> 0,
                t |-> 0]

\* __init__, lines 31-42: the arguments are stored as they are
VicsekInit ==
  /\ svc = "new"
  /\ svc' = "constructed"
  /\ UNCHANGED <<driverVars, coord, heading, vision, setup>>

\* prepareSimulation called with a tmax and dt = None: dt = 1 and
\* numIntervals = int(tmax/dt + 1)
PrepareSimulation ==
  /\ svc = "constructed"
  /\ \E tmax \in 0..(MaxIntervals - 1) :
       setup' = [setup EXCEPT !.tmax = tmax, !.numIntervals = tmax + 1]
  /\ svc' = "running"
  /\ UNCHANGED <<driverVars, coord, heading, vision>>

\* simulate, lines 215-233: one pass of the loop; np.random.normal in
\* generateNoise accepts every scale >= 0
VicsekTimestep ==
  /\ svc = "running"
  /\ setup.t < setup.numIntervals
  /\ setup.noise >= 0
  /\ setup' = [setup EXCEPT !.t = @ + 1]
  /\ UNCHANGED <<driverVars, svc, coord, heading, vision>>

\* simulate, line 226: np.random.normal raises ValueError for a scale < 0
VicsekTimestepRaises ==
  /\ svc = "running"
  /\ setup.t < setup.numIntervals
  /\ setup.noise < 0
  /\ svc' = "raised"
  /\ UNCHANGED <<driverVars, coord, heading, vision, setup>>

\* simulate, line 238
VicsekReturn ==
  /\ svc = "running"
  /\ setup.t = setup.numIntervals
  /\ svc' = "returned"
  /\ UNCHANGED <<driverVars, coord, heading, vision, setup>>

NextSetup == VicsekInit \/ PrepareSimulation \/ VicsekTimestep
               \/ VicsekTimestepRaises \/ VicsekReturn

SpecSetup == InitSetup /\ [][NextSetup]_vars

TypeOK ==
  /\ t \in 0..numIntervals
  /\ ev \in 1..(MaxEvents + 1)
  /\ pc \in {"none", "update", "check", "integrate", "done"}
  /\ positions \in [Agents -> Grid]
  /\ Len(foodEvents) <= MaxEvents

\* ----------------------------------------------------------- properties
\* a step is one call of FoodEvent.check on foodEvents[ev]
CheckStep == pc = "check" /\ ev <= Len(foodEvents) /\ ev' = ev + 1

\* the step boundaries: the loop body of simulate has not begun or has ended
StepBoundary == pc \in {"update", "done"}

C2_FiresUntilExhausted ==
  [][(CheckStep /\ foodEvents[ev].byDriver
        /\ t >= foodEvents[ev].startTimestep /\ foodEvents[ev].amount > 0)
       => foodEvents'[ev].timestep = t]_vars

\* C3: on each firing, amount is decremented by exactly the number of
\* agents in the returned affected mask.
C3_AmountChargedPerSelection ==
  [][(CheckStep /\ foodEvents'[ev].timestep = t)
       => foodEvents'[ev].amount
            = foodEvents[ev].amount - Cardinality(overallAffected'[ev])]_vars

\* C4 (as amended): on each firing the selected set consists of
\* min(amount, number of candidates) candidates, and no unselected candidate
\* is strictly nearer to the origin than a selected one.
C4_NearestFirst ==
  [][(CheckStep /\ foodEvents'[ev].timestep = t) =>
       LET e == foodEvents[ev]
           rij2 == getDifferences(positions, e.origin)
           cand == {i \in Agents : rij2[i] <= radius * radius}
           sel == overallAffected'[ev]
       IN /\ sel \subseteq cand
          /\ Cardinality(sel) = Min(e.amount, Cardinality(cand))
          /\ \A a \in sel, b \in cand \ sel : rij2[a] <= rij2[b]]_vars

\* C4 (as claimed): as above, and ties at the cut-off distance go to the
\* agent with the lower index.
C4_TiesByIndex ==
  [][(CheckStep /\ foodEvents'[ev].timestep = t) =>
       LET e == foodEvents[ev]
           rij2 == getDifferences(positions, e.origin)
           cand == {i \in Agents : rij2[i] <= radius * radius}
           sel == overallAffected'[ev]
       IN /\ sel \subseteq cand
          /\ Cardinality(sel) = Min(e.amount, Cardinality(cand))
          /\ \A a \in sel, b \in cand \ sel : rij2[a] <= rij2[b]
          /\ \A a \in sel, b \in cand \ sel : rij2[a] = rij2[b] => a < b]_vars

\* C4 witness: an event fired in this step, selected an agent and left a
\* candidate that is farther from the origin unselected
C4_Witness ==
  /\ pc = "check"
  /\ \E k \in 1..Len(overallAffected) :
       LET rij2 == getDifferences(positions, foodEvents[k].origin)
       IN /\ foodEvents[k].timestep = t
          /\ \E a \in overallAffected[k], b \in Agents \ overallAffected[k] :
               rij2[a] < rij2[b] /\ rij2[b] <= radius * radius

\* C5: an event with initial amount A that had at least A candidates when it
\* fired has, once its amount is 0, selected exactly A agents, and every
\* firing adds one feeding to the total hunger per agent it charges.
C5_Conservation ==
  /\ [](\A k \in 1..Len(foodEvents) :
          (foodEvents[k].amount = 0 /\ ~foodEvents[k].starved)
            => foodEvents[k].selections = foodEvents[k].maxAmount)
  /\ [][(CheckStep /\ foodEvents'[ev].timestep = t /\ ~foodEvents'[ev].starved)
          => /\ SetSum(hungerLevels', Agents) - SetSum(hungerLevels, Agents)
                  = FoodGain * (foodEvents[ev].amount - foodEvents'[ev].amount)
             /\ foodEvents'[ev].selections - foodEvents[ev].selections
                  = foodEvents[ev].amount - foodEvents'[ev].amount]_vars

\* C5 witness: an event with amount A >= 2 is exhausted after selecting A
\* agents
C5_Witness ==
  \E k \in 1..Len(foodEvents) :
    /\ foodEvents[k].maxAmount >= 2
    /\ foodEvents[k].amount = 0
    /\ ~foodEvents[k].starved
    /\ foodEvents[k].selections = foodEvents[k].maxAmount
\* C6: the speed an agent's position is integrated with in a step is 0 if
\* some food event selected the agent in the step and its hunger is below
\* maxFood, and the nominal speed otherwise (so at maxFood always nominal).
C6_SpeedOfStep ==
  [][pc = "integrate" =>
       \A i \in Agents :
         speeds'[i] = IF i \in Fed /\ hungerLevels[i] < maxFood
                      THEN 0 ELSE speed]_vars

\* C7: after every timestep every agent's hunger lies in [0, maxFood].
C7_HungerBounded ==
  StepBoundary => \A i \in Agents : 0 <= hungerLevels[i] /\ hungerLevels[i] <= maxFood

\* C8: an agent that a food event selected in a step, or whose hunger a food
\* event changed since the start of the step, is not decremented in that
\* step.
C8_FedNotDecremented ==
  [][pc = "integrate" =>
       \A i \in Agents :
         (i \in Fed \/ hungerLevels[i] # stepStartHunger[i])
           => hungerLevels'[i] = hungerLevels[i]]_vars

\* C9: after K consecutive timesteps in which no food event selected an
\* agent, its hunger is K decrements below the value the K steps began
\* with, and after every timestep an agent is alive iff its hunger is > 0.
C9_UnfedDecay ==
  StepBoundary =>
    \A i \in Agents :
      /\ hungerLevels[i] = unfedBase[i] - HungerDecrement * unfedSteps[i]
      /\ alive[i] <=> hungerLevels[i] > 0

\* C9 witness: an agent was fed, then went unselected for a step, and
\* another agent went unselected for two steps in a row and is not alive
C9_Witness ==
  /\ StepBoundary
  /\ \E i, j \in Agents :
       /\ unfedSteps[i] = 1 /\ unfedBase[i] > maxFood /\ alive[i]
       /\ unfedSteps[j] >= 2 /\ hungerLevels[j] <= 0 /\ ~alive[j]

\* C10: an agent that is not alive after a step is not alive after any
\* later step.
C10_DeadStayDead ==
  [][\A i \in Agents : ~alive[i] => ~alive'[i]]_vars

\* C11: during every timestep no dead agent is in a neighbour set:
\* neighbours[i][j] is false for every i when agent j was not alive at the
\* end of the previous step; all per-agent arrays keep one entry per agent.
C11_DeadMasked ==
  /\ pc \in {"check", "integrate"} =>
       \A i, j \in Agents : ~alive[j] => ~neighbours[i][j]
  /\ DOMAIN positions = Agents /\ DOMAIN orientations = Agents
  /\ DOMAIN speeds = Agents /\ DOMAIN hungerLevels = Agents
  /\ DOMAIN alive = Agents /\ DOMAIN neighbours = Agents
  /\ \A i \in Agents : DOMAIN neighbours[i] = Agents

\* C11 witness: in a timestep a dead agent is within the radius of another
\* agent that is alive, and is not in that agent's neighbour set
C11_Witness ==
  /\ pc = "check"
  /\ \E i, j \in Agents :
       /\ i # j /\ alive[i] /\ ~alive[j]
       /\ getNeighboursWithLimitedVision(positions)[i][j]
       /\ ~neighbours[i][j]

\* C12: the position and the orientation of an agent that is not alive are
\* not changed by later timesteps.
C12_DeadFrozen ==
  [][\A i \in Agents :
       ~alive[i] => /\ positions'[i] = positions[i]
                    /\ orientations'[i] = orientations[i]]_vars

\* C13: once all agents are dead the run still goes through every remaining
\* timestep and ends after numIntervals timesteps, and the "everyone is
\* dead" report is printed at most once.
C13_DepletionNotFatal ==
  /\ []((\A i \in Agents : ~alive[i]) => <>(pc = "done" /\ t = numIntervals))
  /\ [](reports <= 1)
  /\ [](pc = "done" => t = numIntervals)

\* C13 witness: the run has ended, every agent was dead at the end of two
\* timesteps, and one report was printed
C13_Witness ==
  /\ pc = "done"
  /\ t = numIntervals
  /\ \A i \in Agents : hungerLevels[i] < 0
  /\ everyoneDead
  /\ reports = 1

\* C14: after the position update of a timestep (position += dt * speed *
\* orientation, then position -= domainSize * floor(position/domainSize))
\* the coordinate x satisfies 0 <= x < L.
C14_PeriodicWrap ==
  svc = "moved" => 0 <= coord.x /\ coord.x < coord.L

C16_NeighbourSymmetry ==
  (svc = "seen" /\ vision.fov = 2 /\ ~vision.occlusion_active) =>
    \A i, j \in VisionAgents : vision.mask[i][j] = vision.mask[j][i]

\* C16 witness: a full field of view without occlusion, two agents with
\* different headings that see each other and a pair that do not
C16_Witness ==
  /\ svc = "seen" /\ vision.fov = 2 /\ ~vision.occlusion_active
  /\ \E i, j, k \in VisionAgents :
       /\ i # j /\ vision.angles[i] # vision.angles[j]
       /\ vision.mask[i][j] /\ vision.mask[j][i]
       /\ ~vision.mask[i][k] /\ ~vision.mask[k][i]

\* agent b lies on the segment from agent a to agent c, strictly inside it
Between(pos, a, b, c) ==
  /\ Cross(RelPos(pos, a, b), RelPos(pos, a, c)) = 0
  /\ Dot(RelPos(pos, a, b), RelPos(pos, a, c)) > 0
  /\ NormSq(RelPos(pos, a, b)) < NormSq(RelPos(pos, a, c))

\* agent x is within the view distance and the field of view of agent a
WithinView(a, x) ==
  LET rel == RelPos(vision.positions, a, x)
  IN /\ NormSq(rel) <= vision.view_distance * vision.view_distance
     /\ vision.fov = 2 \/ Dot(rel, Forward(vision.angles[a])) >= 0

\* C17: for three colinear agents A, B, C with B between A and C and both
\* within A's field of view and view distance, get_visible_agents with
\* occlusion lists B but not C as visible to A, and without occlusion lists C.
C17_OcclusionHides ==
  svc = "seen" =>
    \A a, b, c \in VisionAgents :
      (/\ Between(vision.positions, a, b, c)
       /\ WithinView(a, b) /\ WithinView(a, c))
      => IF vision.occlusion_active
         THEN b \in vision.visibility[a] /\ c \notin vision.visibility[a]
         ELSE c \in vision.visibility[a]

\* C17 witness: with occlusion, B is between A and C, both are within A's
\* view, B is listed and C is not
C17_Witness ==
  /\ svc = "seen" /\ vision.occlusion_active
  /\ \E a, b, c \in VisionAgents :
       /\ Between(vision.positions, a, b, c)
       /\ WithinView(a, b) /\ WithinView(a, c)
       /\ b \in vision.visibility[a] /\ c \notin vision.visibility[a]

\* squared minimum-image distance of two agents on the periodic domain
WrappedDistSq(pos, i, j) ==
  MinImageSq(pos[j][1] - pos[i][1], VisionSide)
    + MinImageSq(pos[j][2] - pos[i][2], VisionSide)

\* C18: with fov = 2*pi and occlusion disabled, agent j # i is visible to
\* agent i if and only if their minimum-image (periodic) distance is
\* <= view_distance.
C18_PeriodicCandidates ==
  (svc = "seen" /\ vision.fov = 2 /\ ~vision.occlusion_active) =>
    \A i, j \in VisionAgents :
      i # j => (j \in vision.visibility[i]
                  <=> WrappedDistSq(vision.positions, i, j)
                        <= vision.view_distance * vision.view_distance)

\* the configurations the specification calls valid
ValidSetup ==
  /\ setup.domainSize > 0
  /\ setup.degreesOfVision \in 0..2
  /\ setup.radius >= 0 /\ setup.speed >= 0 /\ setup.noise >= 0

\* C19: with a domain size <= 0, a fov outside [0, 2*pi] or a negative
\* radius, speed or noise, construction or start fails: no timestep is run
\* and simulate does not return.
C19_ConfigRejected ==
  (svc # "none" /\ ~ValidSetup) => (setup.t = 0 /\ svc # "returned")

\* C20: FoodEvent.check / executeEvent do not modify the hungerLevels array
\* they receive: the driver's start-of-step snapshot of the hunger levels
\* (previousHungerLevels) is not changed by the execution of an event.
C20_SnapshotUntouched ==
  [][CheckStep => /\ previousHungerLevels' = previousHungerLevels
                  /\ previousHungerLevels' = stepStartHunger]_vars

\* the call p was made in the current timestep, and its place in the order
Ran(p) == \E k \in 1..Len(phases) : phases[k] = p
PhaseIndex(p) == CHOOSE k \in 1..Len(phases) : phases[k] = p
Before(p, q) == Ran(p) /\ Ran(q) /\ PhaseIndex(p) < PhaseIndex(q)

\* C21: within every timestep the phases run in this order: neighbour-set
\* computation, then the switching decisions, then the event overrides
\* (orientation events and food events), then the heading update and the
\* position integration, then the recording of the history.
C21_PhaseOrder ==
  (StepBoundary /\ t > 0) =>
    /\ Before("getNeighboursWithLimitedVision", "getDecisions")
    /\ Before("getDecisions", "handleEvents")
    /\ Before("handleEvents", "handleFoodEvents")
    /\ Before("handleFoodEvents", "computeNewOrientations")
    /\ Before("computeNewOrientations", "positions")
    /\ Before("positions", "history")

\* C22: a run performs exactly tmax/dt timesteps and then terminates: when
\* simulate returns from a run with a valid configuration, its loop body has
\* been executed tmax/dt times (dt = 1).
C22_FixedIterationCount ==
  (svc = "returned" /\ ValidSetup) => setup.t = setup.tmax

\* C23: with minAngle/maxAngle from determineMinMaxAngleOfVision,
\* isInFieldOfVision reports a candidate in view if and only if its bearing
\* (mod 2*pi) lies within +/- fov/2 of the heading, also across the 0/2*pi
\* boundary; fov = 2*pi admits every bearing, fov = 0 only the heading.
C23_FovInterval ==
  svc = "fovTested" =>
    LET inView == AngularDistance(Bearing(vision.posDiff),
                                  vision.angle % FullTurn)
                    <= vision.degreesOfVision \div 2
    IN /\ vision.inFieldOfVision <=> inView
       /\ vision.degreesOfVision = FullTurn => vision.inFieldOfVision
       /\ vision.degreesOfVision = 0 =>
            (vision.inFieldOfVision
               <=> Bearing(vision.posDiff) = vision.angle % FullTurn)

\* seen from the observer, agent k is farther away than agent j
Farther(pos, k, j) == NormSq(RelPos(pos, 1, k)) > NormSq(RelPos(pos, 1, j))

\* seen from the observer, the direction of agent k deviates from the
\* direction of agent j by less than the angular radius of agent k, the
\* angle whose sine is radius / distance: the deviation is below a quarter
\* turn and distance * sin(deviation) < radius
WithinAngularRadius(pos, k, j, r) ==
  LET relj == RelPos(pos, 1, j)
      relk == RelPos(pos, 1, k)
  IN /\ Dot(relk, relj) > 0
     /\ Cross(relk, relj) * Cross(relk, relj) < r * r * NormSq(relj)

\* seen from the observer, agent k is behind agent j: its projection on the
\* direction of j is longer than the distance of j
Behind(pos, k, j) ==
  Dot(RelPos(pos, 1, k), RelPos(pos, 1, j)) > NormSq(RelPos(pos, 1, j))

\* C24 (as amended): with occlusion, the candidates are processed in
\* ascending distance order; every candidate not yet marked occluded is
\* accepted, and accepting j marks exactly the agents that lie behind j
\* (their projection on j's direction exceeds j's distance) and whose
\* direction deviates from j's by less than the agent's angular radius; an
\* occluded candidate is not accepted and marks nothing.
C24_GreedySweep ==
  /\ [](svc = "sweep" =>
          \A a, b \in 1..Len(vision.sorted_indices) :
            a < b => ~Farther(vision.positions, vision.sorted_indices[a],
                              vision.sorted_indices[b]))
  /\ [][(svc = "sweep" /\ vision.next <= Len(vision.sorted_indices)) =>
          LET j == vision.sorted_indices[vision.next]
              shadow == {k \in SweepAgents :
                           /\ Behind(vision.positions, k, j)
                           /\ WithinAngularRadius(vision.positions, k, j,
                                                  vision.agent_radius)}
          IN IF j \in vision.occluded_mask
             THEN /\ vision'.visible = vision.visible
                  /\ vision'.occluded_mask = vision.occluded_mask
             ELSE /\ vision'.visible = Append(vision.visible, j)
                  /\ vision'.occluded_mask = vision.occluded_mask \cup shadow]_vars

\* C24 (as claimed): as above, but accepting j marks exactly the agents that
\* are farther from i than j and whose direction deviates from j's by less
\* than the agent's angular radius.
C24_MarksFartherAgents ==
  [][(svc = "sweep" /\ vision.next <= Len(vision.sorted_indices)) =>
       LET j == vision.sorted_indices[vision.next]
           shadow == {k \in SweepAgents :
                        /\ Farther(vision.positions, k, j)
                        /\ WithinAngularRadius(vision.positions, k, j,
                                               vision.agent_radius)}
       IN IF j \in vision.occluded_mask
          THEN /\ vision'.visible = vision.visible
               /\ vision'.occluded_mask = vision.occluded_mask
          ELSE /\ vision'.visible = Append(vision.visible, j)
               /\ vision'.occluded_mask = vision.occluded_mask \cup shadow]_vars

\* C24 witness: the loop has ended; a candidate was accepted, a second one
\* behind it was skipped as occluded, and a third one, which the skipped one
\* would have occluded, was accepted and is not marked
C24_Witness ==
  /\ svc = "swept"
  /\ \E a, b, c \in 1..Len(vision.sorted_indices) :
       LET ja == vision.sorted_indices[a]
           jb == vision.sorted_indices[b]
           jc == vision.sorted_indices[c]
       IN /\ a < b /\ b < c
          /\ \E x \in 1..Len(vision.visible) : vision.visible[x] = ja
          /\ jb \in OccludedAmong(SweepAgents, vision.positions, 1, ja,
                                  vision.agent_radius)
          /\ \A x \in 1..Len(vision.visible) : vision.visible[x] # jb
          /\ jc \in OccludedAmong(SweepAgents, vision.positions, 1, jb,
                                  vision.agent_radius)
          /\ \E x \in 1..Len(vision.visible) : vision.visible[x] = jc
          /\ jc \notin vision.occluded_mask

\* C25: compute_visibility_mask returns a mask whose diagonal entry
\* mask[i][i] is True for every agent, for any fov, view_distance and
\* occlusion setting, and whose off-diagonal entry mask[i][j] is True exactly
\* when j is in the list get_visible_agents produced for i.
C25_SelfInclusion ==
  svc = "seen" =>
    \A i \in VisionAgents :
      /\ vision.mask[i][i]
      /\ \A j \in VisionAgents \ {i} :
           vision.mask[i][j] <=> j \in vision.visibility[i]

\* C25 witness: with occlusion and a half-turn field of view, an agent whose
\* list is empty and one whose list is not; no agent is in its own list
C25_Witness ==
  /\ svc = "seen" /\ vision.occlusion_active /\ vision.fov = 1
  /\ \A i \in VisionAgents : i \notin vision.visibility[i] /\ vision.mask[i][i]
  /\ \E i, j, k \in VisionAgents :
       /\ vision.visibility[i] = {}
       /\ j # k /\ k \in vision.visibility[j] /\ vision.mask[j][k]
       /\ ~vision.mask[k][j]

\* C26: over any sequence of check calls a food event's amount never
\* increases and always satisfies 0 <= amount <= maxAmount; once amount has
\* reached 0 the event selects no agent in any later call and its amount
\* stays 0.
C26_BudgetLifecycle ==
  /\ [](\A k \in 1..Len(foodEvents) :
          0 <= foodEvents[k].amount
            /\ foodEvents[k].amount <= foodEvents[k].maxAmount)
  /\ [][\A k \in 1..Len(foodEvents) :
          foodEvents'[k].amount <= foodEvents[k].amount]_vars
  /\ [][(CheckStep /\ foodEvents[ev].amount = 0)
          => /\ overallAffected'[ev] = {}
             /\ foodEvents'[ev].amount = 0
             /\ foodEvents'[ev].selections = foodEvents[ev].selections
             /\ foodEvents'[ev].timestep = foodEvents[ev].timestep
             /\ hungerLevels' = hungerLevels]_vars

\* C26 witness: an event selected an agent, its amount reached 0, and it was
\* checked again in a later timestep without executing
C26_Witness ==
  /\ pc = "check" /\ ev > Len(foodEvents)
  /\ \E k \in 1..Len(foodEvents) :
       /\ foodEvents[k].amount = 0
       /\ foodEvents[k].selections > 0
       /\ foodEvents[k].timestep < t
       /\ foodEvents[k].duration # NoDuration
       /\ overallAffected[k] = {}

\* C27: during a run each row of the history buffers is written exactly
\* once and never overwritten afterwards, so the initial state stored in row
\* 0 at preparation is still row 0 of the returned history.
C27_HistoryWrittenOnce ==
  /\ [][\A r \in DOMAIN history :
          history[r].writes >= 1 => history'[r] = history[r]]_vars
  /\ [](pc = "done" =>
          /\ \A r \in DOMAIN history : history[r].writes = 1
          /\ history[0].holds = InitialState)

====
